---- MODULE Spec2Model ----
(***************************************************************************)
(* Model of the storage layer of IQTEK-REST-API                            *)
(* (src/iqtek-rest-api/myrepository.py, src/iqtek-rest-api/myfactory.py):  *)
(* the three repositories RepositoryRAM, RepositoryBytearray and           *)
(* RepositoryMySQL behind the get/list/add/delete/update contract, and the *)
(* UserFactory that builds the entities they return.                       *)
(*                                                                         *)
(* A title is a sequence of Unicode code points; an entity is the record   *)
(* [id, title] (properties = {"title": title}).  The repositories named in *)
(* `repos` are the instances under test; every call is made on each of     *)
(* them, so that their answers can be compared.                            *)
(***************************************************************************)
EXTENDS Integers, Sequences, FiniteSets, TLC

VARIABLES
    repos,      \* names of the repository classes instantiated for this run
    db_faults,  \* whether the MySQL server may fail during this run
    ram_db,     \* RepositoryRAM.__db: list of entities
    ba_db,      \* RepositoryBytearray.__db: bytearray
    table,      \* MySQL table users: id -> title, for the rows present
    cache,      \* RepositoryMySQL._cache: id -> cached result of ("get", id)
    call,       \* the last call made: [op, id, title]
    res,        \* the outcome of the last call on each repository of repos
    scen,       \* how far the run so far follows the cross-backend scenario
    UserFactory_empty_entity,  \* the object in the class attribute UserFactory.empty_entity
    fcall,      \* the last call made on the factory: [op, user_id, properties]
    fres,       \* the object that call returned
    held,       \* the object a caller was last given by get() for an id not stored
    get_dict_result,  \* the mapping the last get_dict() returned: [first, val]
    options_file,  \* the file OPTIONS_FILE_PATH: [state, has_repo_type, repo_type]
    creation,   \* the last RepositoryCreator.create: [op, file, exc, repository]
    db_exists,  \* whether the MySQL server has the database DB_NAME
    connections,  \* the connections the last call opened, each "closed" or "open"
    threads     \* the calls in progress in the threads of the server, thread ->
                \* [pc, op, id, title, results, absent, ret]

vars == <<repos, db_faults, ram_db, ba_db, table, cache, call, res, scen,
          UserFactory_empty_entity, fcall, fres, held, get_dict_result, threads,
          options_file, creation, db_exists, connections>>

-----------------------------------------------------------------------------
(* Constants of the program *)

\* RepositoryBytearray.__title_length / __entry_length
RECORD_WIDTH == 40

\* RepositoryBytearray.__db_length
MAX_RECORDS == 4

\* id of the entity UserFactory.create_empty builds
SENTINEL_ID == -1

\* status codes returned by add/delete/update
OK == 0

FAIL == -1

-----------------------------------------------------------------------------
(* Bounds of the model *)

\* RAM and MySQL runs use the ids -1 and 1..MaxId
MaxId == 2

-----------------------------------------------------------------------------
(* Titles used as inputs, as sequences of code points *)

Empty == << >>

\* "Pyotr Pervy"
PyotrPervy == <<80, 121, 111, 116, 114, 32, 80, 101, 114, 118, 121>>

\* "Aleksandr Pushkin"
AleksandrPushkin ==
    <<65, 108, 101, 107, 115, 97, 110, 100, 114, 32, 80, 117, 115, 104, 107, 105, 110>>

\* "A.S. Pushkin"
ASPushkin == <<65, 46, 83, 46, 32, 80, 117, 115, 104, 107, 105, 110>>

\* "é": one code point, two UTF-8 bytes
EAcute == <<233>>

\* "B"
LetterB == <<66>>

\* "B\0": a title that ends with the NUL character
BNul == <<66, 0>>

\* RECORD_WIDTH + 1 letters "x": one byte more than a slot holds
TooLong == [i \in 1..(RECORD_WIDTH + 1) |-> 120]

\* "'; DROP TABLE IF EXISTS users; --": the title of the SQL injection test
DropTable ==
    <<39, 59, 32, 68, 82, 79, 80, 32, 84, 65, 66, 76, 69, 32, 73, 70, 32, 69, 88,
      73, 83, 84, 83, 32, 117, 115, 101, 114, 115, 59, 32, 45, 45>>

\* title VARCHAR(255): the characters the column holds
TITLE_WIDTH == 255

\* TITLE_WIDTH + 1 letters "x": one character more than the column holds
TooLongForColumn == [i \in 1..(TITLE_WIDTH + 1) |-> 120]

-----------------------------------------------------------------------------
(* Python sequence helpers *)

\* Python's index normalisation for a sequence of length n: i or i + n
PyIndex(n, i) == IF i < 0 THEN i + n ELSE i

\* whether s[i] raises IndexError for a sequence of length n
PyIndexError(n, i) == i < -n \/ i >= n

\* s[i] for a valid Python index i (0-based, negative from the end)
PyItem(s, i) == s[PyIndex(Len(s), i) + 1]

\* bound of a slice: negative counts from the end, then clamped to 0..n
PySliceBound(n, i) ==
    IF i < 0 THEN (IF i + n < 0 THEN 0 ELSE i + n)
    ELSE (IF i > n THEN n ELSE i)

\* s[a:b]
PySlice(s, a, b) ==
    SubSeq(s, PySliceBound(Len(s), a) + 1, PySliceBound(Len(s), b))

\* bytes.rstrip(b"\x00")
RECURSIVE RStripZero(_)
RStripZero(s) ==
    IF Len(s) > 0 /\ s[Len(s)] = 0 THEN RStripZero(SubSeq(s, 1, Len(s) - 1)) ELSE s

\* bytearray(title, 'utf-8'): UTF-8 encoding of code points below 2048
RECURSIVE Utf8Encode(_)
Utf8Encode(t) ==
    IF t = << >> THEN << >>
    ELSE LET c == Head(t)
         IN  (IF c < 128 THEN <<c>> ELSE <<192 + (c \div 64), 128 + (c % 64)>>)
             \o Utf8Encode(Tail(t))

\* whether bytes.decode("utf-8") raises UnicodeDecodeError
RECURSIVE Utf8Invalid(_)
Utf8Invalid(b) ==
    IF b = << >> THEN FALSE
    ELSE IF b[1] < 128 THEN Utf8Invalid(Tail(b))
    ELSE IF b[1] >= 194 /\ b[1] < 224 /\ Len(b) >= 2 /\ b[2] >= 128 /\ b[2] < 192
         THEN Utf8Invalid(Tail(Tail(b)))
    ELSE TRUE

\* bytes.decode("utf-8") of a valid encoding
RECURSIVE Utf8Decode(_)
Utf8Decode(b) ==
    IF b = << >> THEN << >>
    ELSE IF b[1] < 128 THEN <<b[1]>> \o Utf8Decode(Tail(b))
    ELSE <<(b[1] - 192) * 64 + (b[2] - 128)>> \o Utf8Decode(Tail(Tail(b)))

-----------------------------------------------------------------------------
(* Entities and the factory *)

\* User(user_id, {"title": title})
User(user_id, title) == [id |-> user_id, title |-> title]

\* UserFactory.create_empty: User(-1, {"title": ""})
create_empty == User(SENTINEL_ID, Empty)

\* UserFactory.empty_entity
empty_entity == create_empty

\* UserFactory.create for an integer id and a dict with the key "title"
create(user_id, title) == User(user_id, title)

-----------------------------------------------------------------------------
(* The factory on Python objects.  A Python value is the record [type, val]; *)
(* an entity object is [ref, id, properties], where ref tells the objects    *)
(* apart: the n-th object create_empty has built has ref n, any other        *)
(* object has ref 0.                                                         *)

\* how many sentinel objects a run builds at most
MaxSentinels == 3

PyInt(n) == [type |-> "int", val |-> n]

PyBool(b) == [type |-> "bool", val |-> b]

PyStr(str) == [type |-> "str", val |-> str]

PyFloat(n) == [type |-> "float", val |-> n]

PyNone == [type |-> "NoneType", val |-> 0]

\* a dict, val the function from its keys to their values
PyDict(items) == [type |-> "dict", val |-> items]

\* a list, val the sequence of its items
PyList(items) == [type |-> "list", val |-> items]

\* isinstance(value, value_type); bool is a subclass of int
isinstance(value, value_type) ==
    \/ value.type = value_type
    \/ value.type = "bool" /\ value_type = "int"

\* TypeChecker.__set__: the exception it raises, "none" when it stores the value
TypeChecker_set(value, value_type) ==
    IF isinstance(value, value_type) THEN "none" ELSE "TypeError"

\* a DictChecker.__set__ that accepts every dict
DictChecker_set_any_dict(dict_value, key_name) ==
    IF isinstance(dict_value, "dict") THEN "none" ELSE "TypeError"

\* DictChecker.__set__: the exception it raises, "none" when it stores the dict
DictChecker_set(dict_value, key_name) ==
    IF isinstance(dict_value, "dict")
    THEN IF key_name \in DOMAIN dict_value.val THEN "none" ELSE "TypeError"
    ELSE "TypeError"

\* no object
NoObject == [ref |-> 0, id |-> PyNone, properties |-> PyNone]

\* User(user_id, properties), built as the object ref: Entity.__init__ assigns
\* id through TypeChecker("id", int) and then properties through
\* DictChecker("properties", "title"); [exc, obj]
User_init(ref, user_id, properties) ==
    IF TypeChecker_set(user_id, "int") # "none"
    THEN [exc |-> "TypeError", obj |-> NoObject]
    ELSE IF DictChecker_set(properties, "title") # "none"
    THEN [exc |-> "TypeError", obj |-> NoObject]
    ELSE [exc |-> "none",
          obj |-> [ref |-> ref, id |-> user_id, properties |-> properties]]

\* UserFactory.create_empty, building the object ref: the new value of
\* UserFactory.empty_entity, which is also what it returns
UserFactory_create_empty(ref) ==
    User_init(ref, PyInt(SENTINEL_ID), PyDict("title" :> Empty)).obj

\* UserFactory.create while UserFactory.empty_entity is sentinel: [exc, obj]
UserFactory_create(sentinel, user_id, properties) ==
    LET entity == User_init(0, user_id, properties)
    IN  IF entity.exc = "none" THEN [exc |-> "none", obj |-> entity.obj]
        ELSE IF entity.exc = "TypeError" THEN [exc |-> "none", obj |-> sentinel]
        ELSE [exc |-> entity.exc, obj |-> NoObject]

\* User.get_dict: result is the mapping returned, [first, val] with its first
\* key and its values, a property's string as a Python value; self is the
\* entity after the call.  result = {"id": self.id} puts the key id first, and
\* result.update(self.properties) sets every key of the properties, the key
\* id too when the properties have one
User_get_dict(self) ==
    LET properties == self.properties.val
        result == [k \in {"id"} \cup DOMAIN properties |->
                      IF k \in DOMAIN properties THEN PyStr(properties[k])
                      ELSE self.id]
    IN  [result |-> [first |-> "id", val |-> result], self |-> self]

\* no mapping: get_dict has not been called
NoDict == [first |-> "none", val |-> << >>]

\* entity == factory.empty_entity: Entity defines no __eq__, so two objects are
\* equal when they are the same object
Entity_eq(entity, sentinel) == entity.ref = sentinel.ref

-----------------------------------------------------------------------------
(* Outcomes of a call *)

\* a call returned a status code
RetStatus(op, s) == [op |-> op, status |-> s, entities |-> << >>, exc |-> "none"]

\* get returned an entity
RetEntity(op, e) == [op |-> op, status |-> OK, entities |-> <<e>>, exc |-> "none"]

\* list returned a list of entities
RetList(op, l) == [op |-> op, status |-> OK, entities |-> l, exc |-> "none"]

\* the call raised an exception
Raised(op, e) == [op |-> op, status |-> OK, entities |-> << >>, exc |-> e]

-----------------------------------------------------------------------------
(* RepositoryRAM: each operation maps the list to [db, ret] *)

\* RepositoryRAM.__get_index: 0-based index of the first entity with the id, else -1
RECURSIVE RAM_scan(_, _, _)
RAM_scan(db, user_id, i) ==
    IF i >= Len(db) THEN -1
    ELSE IF db[i + 1].id = user_id THEN i
    ELSE RAM_scan(db, user_id, i + 1)

RAM_get_index(db, user_id) == RAM_scan(db, user_id, 0)

\* a RepositoryRAM.get that takes the entity it finds out of the list
RAM_get_pop(db, user_id) ==
    LET i == RAM_scan(db, user_id, 0)
    IN  [db |-> IF i # -1 THEN SubSeq(db, 1, i) \o SubSeq(db, i + 2, Len(db)) ELSE db,
         ret |-> RetEntity("get", IF i # -1 THEN db[i + 1] ELSE empty_entity)]

\* RepositoryRAM.get
RAM_get(db, user_id) ==
    LET i == RAM_scan(db, user_id, 0)
    IN  [db |-> db,
         ret |-> RetEntity("get", IF i # -1 THEN db[i + 1] ELSE empty_entity)]

\* RepositoryRAM.list
RAM_list(db) ==
    [db |-> db, ret |-> RetList("list", IF Len(db) # 0 THEN db ELSE << >>)]

\* RepositoryRAM.add without the existence check (C1's mutant)
RAM_add_unchecked(db, entity) ==
    [db |-> Append(db, entity), ret |-> RetStatus("add", OK)]

\* RepositoryRAM.add
RAM_add(db, entity) ==
    IF RAM_get_index(db, entity.id) = -1
    THEN [db |-> Append(db, entity), ret |-> RetStatus("add", OK)]
    ELSE [db |-> db, ret |-> RetStatus("add", FAIL)]

\* RepositoryRAM.delete with "del self.__db[0]" (C5's mutant)
RAM_delete_first(db, user_id) ==
    IF RAM_get_index(db, user_id) # -1
    THEN [db |-> Tail(db), ret |-> RetStatus("delete", OK)]
    ELSE [db |-> db, ret |-> RetStatus("delete", FAIL)]

\* RepositoryRAM.delete
RAM_delete(db, user_id) ==
    LET i == RAM_get_index(db, user_id)
    IN  IF i # -1
        THEN [db |-> SubSeq(db, 1, i) \o SubSeq(db, i + 2, Len(db)),
              ret |-> RetStatus("delete", OK)]
        ELSE [db |-> db, ret |-> RetStatus("delete", FAIL)]

\* a RepositoryRAM.update that removes the entity found and appends the new one
RAM_update_append(db, entity) ==
    LET i == RAM_get_index(db, entity.id)
    IN  IF i # -1
        THEN [db |-> Append(SubSeq(db, 1, i) \o SubSeq(db, i + 2, Len(db)), entity),
              ret |-> RetStatus("update", OK)]
        ELSE [db |-> db, ret |-> RetStatus("update", FAIL)]

\* RepositoryRAM.update
RAM_update(db, entity) ==
    LET i == RAM_get_index(db, entity.id)
    IN  IF i # -1
        THEN [db |-> [db EXCEPT ![i + 1] = entity], ret |-> RetStatus("update", OK)]
        ELSE [db |-> db, ret |-> RetStatus("update", FAIL)]

-----------------------------------------------------------------------------
(* RepositoryBytearray: each operation maps the buffer to [db, ret] *)

\* RepositoryBytearray.__init__: bytearray(__title_length * __db_length)
BA_init == [i \in 1..(RECORD_WIDTH * MAX_RECORDS) |-> 0]

\* RepositoryBytearray.__get_address
BA_get_address(user_id) ==
    [first_byte |-> (user_id - 1) * RECORD_WIDTH,
     last_byte |-> (user_id - 1) * RECORD_WIDTH + RECORD_WIDTH]

\* the loop "for i in range(len(src)): db[first_byte + i] = src[i]", from step i:
\* an index outside the buffer raises IndexError and keeps the bytes written so far
RECURSIVE BA_write(_, _, _, _)
BA_write(db, first_byte, src, i) ==
    IF i >= Len(src) THEN [db |-> db, exc |-> "none"]
    ELSE IF PyIndexError(Len(db), first_byte + i) THEN [db |-> db, exc |-> "IndexError"]
    ELSE BA_write([db EXCEPT ![PyIndex(Len(db), first_byte + i) + 1] = src[i + 1]],
                  first_byte, src, i + 1)

\* db[first_byte:last_byte].rstrip(b"\x00").decode("utf-8"), then factory.create
BA_read(db, user_id) ==
    LET a == BA_get_address(user_id)
        raw == RStripZero(PySlice(db, a.first_byte, a.last_byte))
    IN  IF Utf8Invalid(raw) THEN [exc |-> "UnicodeDecodeError", entity |-> empty_entity]
        ELSE [exc |-> "none", entity |-> create(user_id, Utf8Decode(raw))]

\* RepositoryBytearray.get
BA_get(db, user_id) ==
    LET a == BA_get_address(user_id)
    IN  IF PyIndexError(Len(db), a.first_byte)
        THEN [db |-> db, ret |-> Raised("get", "IndexError")]
        ELSE IF PyItem(db, a.first_byte) # 0
        THEN LET r == BA_read(db, user_id)
             IN  [db |-> db,
                  ret |-> IF r.exc # "none" THEN Raised("get", r.exc)
                          ELSE RetEntity("get", r.entity)]
        ELSE [db |-> db, ret |-> RetEntity("get", empty_entity)]

\* RepositoryBytearray.list, the loop "for i in range(__db_length)" from step i
RECURSIVE BA_list_loop(_, _, _)
BA_list_loop(db, i, results) ==
    IF i >= MAX_RECORDS THEN [exc |-> "none", results |-> results]
    ELSE LET a == BA_get_address(i)
         IN  IF PyIndexError(Len(db), a.first_byte)
             THEN [exc |-> "IndexError", results |-> results]
             ELSE IF PyItem(db, a.first_byte) # 0
             THEN LET r == BA_read(db, i)
                  IN  IF r.exc # "none" THEN [exc |-> r.exc, results |-> results]
                      ELSE BA_list_loop(db, i + 1, Append(results, r.entity))
             ELSE BA_list_loop(db, i + 1, results)

BA_list(db) ==
    LET r == BA_list_loop(db, 0, << >>)
    IN  [db |-> db,
         ret |-> IF r.exc # "none" THEN Raised("list", r.exc)
                 ELSE RetList("list", r.results)]

\* a RepositoryBytearray.add that stores a space for the empty title
BA_add_marked(db, entity) ==
    LET a == BA_get_address(entity.id)
        to_db == IF Len(entity.title) = 0 THEN <<32>> ELSE Utf8Encode(entity.title)
    IN  IF PyIndexError(Len(db), a.first_byte)
        THEN [db |-> db, ret |-> Raised("add", "IndexError")]
        ELSE IF PyItem(db, a.first_byte) = 0
        THEN LET w == BA_write(db, a.first_byte, to_db, 0)
             IN  [db |-> w.db,
                  ret |-> IF w.exc # "none" THEN Raised("add", w.exc)
                          ELSE RetStatus("add", OK)]
        ELSE [db |-> db, ret |-> RetStatus("add", FAIL)]

\* RepositoryBytearray.add
BA_add(db, entity) ==
    LET a == BA_get_address(entity.id)
        to_db == Utf8Encode(entity.title)
    IN  IF PyIndexError(Len(db), a.first_byte)
        THEN [db |-> db, ret |-> Raised("add", "IndexError")]
        ELSE IF PyItem(db, a.first_byte) = 0
        THEN LET w == BA_write(db, a.first_byte, to_db, 0)
             IN  [db |-> w.db,
                  ret |-> IF w.exc # "none" THEN Raised("add", w.exc)
                          ELSE RetStatus("add", OK)]
        ELSE [db |-> db, ret |-> RetStatus("add", FAIL)]

\* a RepositoryBytearray.delete that zeroes the first byte of the record only
BA_delete_first_byte(db, user_id) ==
    LET a == BA_get_address(user_id)
    IN  IF PyIndexError(Len(db), a.first_byte)
        THEN [db |-> db, ret |-> Raised("delete", "IndexError")]
        ELSE IF PyItem(db, a.first_byte) # 0
        THEN [db |-> BA_write(db, a.first_byte, <<0>>, 0).db,
              ret |-> RetStatus("delete", OK)]
        ELSE [db |-> db, ret |-> RetStatus("delete", FAIL)]

\* RepositoryBytearray.delete
BA_delete(db, user_id) ==
    LET a == BA_get_address(user_id)
    IN  IF PyIndexError(Len(db), a.first_byte)
        THEN [db |-> db, ret |-> Raised("delete", "IndexError")]
        ELSE IF PyItem(db, a.first_byte) # 0
        THEN LET w == BA_write(db, a.first_byte, [i \in 1..RECORD_WIDTH |-> 0], 0)
             IN  [db |-> w.db,
                  ret |-> IF w.exc # "none" THEN Raised("delete", w.exc)
                          ELSE RetStatus("delete", OK)]
        ELSE [db |-> db, ret |-> RetStatus("delete", FAIL)]

\* RepositoryBytearray.update
BA_update(db, entity) ==
    LET a == BA_get_address(entity.id)
        to_db == Utf8Encode(entity.title)
    IN  IF PyIndexError(Len(db), a.first_byte)
        THEN [db |-> db, ret |-> Raised("update", "IndexError")]
        ELSE IF PyItem(db, a.first_byte) # 0
        THEN LET w == BA_write(db, a.first_byte, to_db, 0)
             IN  [db |-> w.db,
                  ret |-> IF w.exc # "none" THEN Raised("update", w.exc)
                          ELSE RetStatus("update", OK)]
        ELSE [db |-> db, ret |-> RetStatus("update", FAIL)]

-----------------------------------------------------------------------------
(* RepositoryMySQL: the table users (id INT PRIMARY KEY, title) is a map   *)
(* from the ids present to their titles; _cache is a map from the ids with *)
(* a cached ("get", id) result to that result, a list of rows.  Each       *)
(* operation maps [table, cache] to [table, cache, ret].  A query's        *)
(* outcome is "ok", "error" (the statement or the commit raises            *)
(* mysql.connector.Error) or "noconn" (connect() raises it).               *)

\* a dict with the key k set to v
MapPut(m, k, v) == [x \in (DOMAIN m) \cup {k} |-> IF x = k THEN v ELSE m[x]]

\* a dict without the key k
MapDel(m, k) == [x \in (DOMAIN m) \ {k} |-> m[x]]

\* the empty dict
EmptyMap == [x \in {} |-> 0]

\* one row of the cursor(dictionary=True) result
Row(user_id, title) == [id |-> user_id, title |-> title]

\* "SELECT * FROM users WHERE id = %(user_id)s"
SQL_select(tbl, user_id) ==
    IF user_id \in DOMAIN tbl THEN <<Row(user_id, tbl[user_id])>> ELSE << >>

\* "SELECT * FROM users": the rows in primary-key order
RECURSIVE SQL_select_all(_, _)
SQL_select_all(tbl, ids) ==
    IF ids = {} THEN << >>
    ELSE LET k == CHOOSE x \in ids : \A y \in ids : x <= y
         IN  <<Row(k, tbl[k])>> \o SQL_select_all(tbl, ids \ {k})

\* the connector's escaping of one character of a str parameter: backslash,
\* both quotes and Ctrl-Z get a backslash, newline and carriage return become
\* \n and \r
SQL_escape_char(ch) ==
    CASE ch \in {92, 39, 34, 26} -> <<92, ch>>
      [] ch = 10 -> <<92, 110>>
      [] ch = 13 -> <<92, 114>>
      [] OTHER -> <<ch>>

\* the escaped characters of a str parameter: each character gives the pair of
\* its backslash, if it gets one, and its escaped form
SQL_escape(title) ==
    LET pairs == [j \in 1..(2 * Len(title)) |->
                    LET e == SQL_escape_char(title[(j + 1) \div 2])
                    IN  IF j % 2 = 0 THEN e[Len(e)]
                        ELSE IF Len(e) = 2 THEN e[1] ELSE -1]
    IN  SelectSeq(pairs, LAMBDA ch : ch # -1)

\* what execute() puts into the statement for %(title)s: the escaped
\* characters between quotes
SQL_quote(title) == <<39>> \o SQL_escape(title) \o <<39>>

\* the character the server reads for a backslash followed by ch
SQL_unescape_char(ch) ==
    CASE ch = 110 -> 10
      [] ch = 114 -> 13
      [] ch = 90 -> 26
      [] ch = 48 -> 0
      [] OTHER -> ch

\* the i-th character of the text s of a string literal is taken by a
\* backslash: an odd number of backslashes stands right before it
SQL_taken(s, i) ==
    LET run == CHOOSE r \in 0..(i - 1) :
                   /\ \A k \in 1..r : s[i - k] = 92
                   /\ r = i - 1 \/ s[i - r - 1] # 92
    IN  run % 2 = 1

\* the server reading the string literal that the statement text s begins
\* with: the literal ends at the first quote that no backslash takes, a
\* backslash gives the character it takes; rest is the text after the literal,
\* and the literal is unterminated when the text ends inside it
SQL_read_literal(s) ==
    LET quotes == {i \in 2..Len(s) : s[i] = 39 /\ ~SQL_taken(s, i)}
        end == IF quotes = {} THEN Len(s) + 1
               ELSE CHOOSE i \in quotes : \A j \in quotes : i <= j
        inside == SelectSeq([i \in 1..(end - 2) |-> i + 1],
                            LAMBDA i : s[i] # 92 \/ SQL_taken(s, i))
    IN  [value |-> [n \in 1..Len(inside) |->
                      IF SQL_taken(s, inside[n]) THEN SQL_unescape_char(s[inside[n]])
                      ELSE s[inside[n]]],
         rest |-> SubSeq(s, end + 1, Len(s)),
         terminated |-> quotes # {}]

\* the value the server gets for the parameter title of a statement: data is
\* FALSE when the text of the parameter does not end with its literal, so that
\* a part of it is read as SQL
SQL_bind(title) ==
    LET s == SQL_quote(title)
        lit == SQL_read_literal(s)
    IN  [value |-> lit.value, data |-> lit.terminated /\ lit.rest = << >>]

\* the titles of the runs
Titles ==
    {Empty, PyotrPervy, AleksandrPushkin, ASPushkin, EAcute, LetterB, BNul, TooLong,
     DropTable, TooLongForColumn}

\* what the server gets for each title of the runs
SQL_params == [title \in Titles |-> SQL_bind(title)]

\* cursor.execute(query, {'user_id': user_id, 'title': title}): the value the
\* server gets for the parameter title
SQL_param(title) == SQL_params[title]

\* an INSERT that replaces the row of a key that is already there
SQL_insert_replace(tbl, user_id, title) ==
    [table |-> MapPut(tbl, user_id, title), error |-> FALSE]

\* "INSERT INTO users (id, title) VALUES (...)": a statement that is not
\* well-formed, a duplicate key and, in the server's default strict mode, a
\* title longer than the column are an Error
SQL_insert(tbl, user_id, title) ==
    LET p == SQL_param(title)
    IN  IF ~p.data \/ user_id \in DOMAIN tbl \/ Len(p.value) > TITLE_WIDTH
        THEN [table |-> tbl, error |-> TRUE]
        ELSE [table |-> MapPut(tbl, user_id, p.value), error |-> FALSE]

\* "DELETE FROM users WHERE id = %(user_id)s"
SQL_delete(tbl, user_id) == [table |-> MapDel(tbl, user_id), error |-> FALSE]

\* "UPDATE users SET title = %(title)s WHERE id = %(user_id)s"
SQL_update(tbl, user_id, title) ==
    LET p == SQL_param(title)
    IN  IF ~p.data THEN [table |-> tbl, error |-> TRUE]
        ELSE IF user_id \notin DOMAIN tbl THEN [table |-> tbl, error |-> FALSE]
        ELSE IF Len(p.value) > TITLE_WIDTH THEN [table |-> tbl, error |-> TRUE]
        ELSE [table |-> MapPut(tbl, user_id, p.value), error |-> FALSE]

\* RepositoryMySQL.__get_db_connection: the connection, or None on Error
MySQL_get_db_connection(outcome) == IF outcome = "noconn" THEN "None" ELSE "connection"

\* RepositoryMySQL.__make_query for a statement whose effect on a reachable
\* server is `effect` = [table, error] and whose result set is `rows`:
\* conn.cursor() on None raises AttributeError, which "except Error" lets through;
\* an Error is caught and gives [] with the table as it was, and the routine
\* returns without having reached conn.close(); conns is the connection the
\* routine opened, as it is when the routine returns
MySQL_make_query(tbl, effect, rows, outcome) ==
    IF MySQL_get_db_connection(outcome) = "None"
    THEN [table |-> tbl, results |-> << >>, exc |-> "AttributeError", conns |-> << >>]
    ELSE IF outcome = "error" \/ effect.error
    THEN [table |-> tbl, results |-> << >>, exc |-> "none", conns |-> <<"open">>]
    ELSE [table |-> effect.table, results |-> rows, exc |-> "none",
          conns |-> <<"closed">>]

\* RepositoryMySQL.__clear_cache that assigns a local instead of self._cache
\* (C7's mutant)
MySQL_keep_cache(c) == c

\* a __clear_cache that drops the entry of one id only
MySQL_clear_cache_one(c) ==
    IF DOMAIN c = {} THEN c ELSE MapDel(c, CHOOSE k \in DOMAIN c : TRUE)

\* RepositoryMySQL.__clear_cache
MySQL_clear_cache(c) == EmptyMap

\* RepositoryMySQL.get
MySQL_get(tbl, c, user_id, o1) ==
    LET hit == user_id \in DOMAIN c
        q == MySQL_make_query(tbl, [table |-> tbl, error |-> FALSE],
                              SQL_select(tbl, user_id), o1)
        results == IF hit THEN c[user_id] ELSE q.results
        c2 == IF hit THEN c ELSE MapPut(c, user_id, results)
        conns == IF hit THEN << >> ELSE q.conns
    IN  IF ~hit /\ q.exc # "none"
        THEN [table |-> tbl, cache |-> c, conns |-> conns, ret |-> Raised("get", q.exc)]
        ELSE [table |-> tbl, cache |-> c2, conns |-> conns,
              ret |-> IF Len(results) = 0 THEN RetEntity("get", empty_entity)
                      ELSE RetEntity("get", create(results[1].id, results[1].title))]

\* RepositoryMySQL.list
MySQL_list(tbl, c, o1) ==
    LET q == MySQL_make_query(tbl, [table |-> tbl, error |-> FALSE],
                              SQL_select_all(tbl, DOMAIN tbl), o1)
    IN  [table |-> tbl, cache |-> c, conns |-> q.conns,
         ret |-> IF q.exc # "none" THEN Raised("list", q.exc)
                 ELSE RetList("list",
                        [i \in 1..Len(q.results) |->
                            create(q.results[i].id, q.results[i].title)])]

\* RepositoryMySQL.add
MySQL_add(tbl, c, entity, o1, o2) ==
    LET g == MySQL_get(tbl, c, entity.id, o1)
        q == MySQL_make_query(tbl, SQL_insert(tbl, entity.id, entity.title), << >>, o2)
    IN  IF g.ret.exc # "none"
        THEN [table |-> tbl, cache |-> g.cache, conns |-> g.conns,
              ret |-> Raised("add", g.ret.exc)]
        ELSE IF g.ret.entities[1].id = -1
        THEN IF q.exc # "none"
             THEN [table |-> tbl, cache |-> g.cache, conns |-> g.conns \o q.conns,
                   ret |-> Raised("add", q.exc)]
             ELSE [table |-> q.table, cache |-> MySQL_clear_cache(g.cache),
                   conns |-> g.conns \o q.conns, ret |-> RetStatus("add", OK)]
        ELSE [table |-> tbl, cache |-> g.cache, conns |-> g.conns,
              ret |-> RetStatus("add", FAIL)]

\* RepositoryMySQL.delete
MySQL_delete(tbl, c, user_id, o1, o2) ==
    LET g == MySQL_get(tbl, c, user_id, o1)
        q == MySQL_make_query(tbl, SQL_delete(tbl, user_id), << >>, o2)
    IN  IF g.ret.exc # "none"
        THEN [table |-> tbl, cache |-> g.cache, conns |-> g.conns,
              ret |-> Raised("delete", g.ret.exc)]
        ELSE IF g.ret.entities[1].id # -1
        THEN IF q.exc # "none"
             THEN [table |-> tbl, cache |-> g.cache, conns |-> g.conns \o q.conns,
                   ret |-> Raised("delete", q.exc)]
             ELSE [table |-> q.table, cache |-> MySQL_clear_cache(g.cache),
                   conns |-> g.conns \o q.conns, ret |-> RetStatus("delete", OK)]
        ELSE [table |-> tbl, cache |-> g.cache, conns |-> g.conns,
              ret |-> RetStatus("delete", FAIL)]

\* RepositoryMySQL.update without the existence check (C9's mutant)
MySQL_update_unchecked(tbl, c, entity, o1, o2) ==
    LET q == MySQL_make_query(tbl, SQL_update(tbl, entity.id, entity.title), << >>, o2)
    IN  IF q.exc # "none"
        THEN [table |-> tbl, cache |-> c, conns |-> q.conns,
              ret |-> Raised("update", q.exc)]
        ELSE [table |-> q.table, cache |-> MySQL_clear_cache(c), conns |-> q.conns,
              ret |-> RetStatus("update", OK)]

\* RepositoryMySQL.update
MySQL_update(tbl, c, entity, o1, o2) ==
    LET g == MySQL_get(tbl, c, entity.id, o1)
        q == MySQL_make_query(tbl, SQL_update(tbl, entity.id, entity.title), << >>, o2)
    IN  IF g.ret.exc # "none"
        THEN [table |-> tbl, cache |-> g.cache, conns |-> g.conns,
              ret |-> Raised("update", g.ret.exc)]
        ELSE IF g.ret.entities[1].id # -1
        THEN IF q.exc # "none"
             THEN [table |-> tbl, cache |-> g.cache, conns |-> g.conns \o q.conns,
                   ret |-> Raised("update", q.exc)]
             ELSE [table |-> q.table, cache |-> MySQL_clear_cache(g.cache),
                   conns |-> g.conns \o q.conns, ret |-> RetStatus("update", OK)]
        ELSE [table |-> tbl, cache |-> g.cache, conns |-> g.conns,
              ret |-> RetStatus("update", FAIL)]

\* connect(host, user, password, database=DB_NAME): the server refuses a
\* database it does not have, as it refuses when it cannot be reached
MySQL_connect(db, outcome) == IF db THEN outcome ELSE "noconn"

\* RepositoryMySQL.__init__ -> __init_db on a server where every statement of
\* the construction has the outcome `outcome`: CREATE DATABASE IF NOT EXISTS,
\* DROP TABLE IF EXISTS users, CREATE TABLE IF NOT EXISTS users;
\* [exc, table, conns]
MySQL_init_db(tbl, db, outcome) ==
    LET o == MySQL_connect(db, outcome)
        q1 == MySQL_make_query(tbl, [table |-> tbl, error |-> FALSE], << >>, o)
        q2 == MySQL_make_query(tbl, [table |-> EmptyMap, error |-> FALSE], << >>, o)
        q3 == MySQL_make_query(q2.table, [table |-> q2.table, error |-> FALSE], << >>, o)
    IN  IF q1.exc # "none" THEN [exc |-> q1.exc, table |-> tbl, conns |-> q1.conns]
        ELSE IF q2.exc # "none"
        THEN [exc |-> q2.exc, table |-> tbl, conns |-> q1.conns \o q2.conns]
        ELSE [exc |-> q3.exc, table |-> q3.table,
              conns |-> q1.conns \o q2.conns \o q3.conns]

-----------------------------------------------------------------------------
(* RepositoryCreator: the options file is [state, has_repo_type, repo_type], *)
(* state "missing" (open raises OSError), "not_json" (json.load raises) or   *)
(* "json" (an object, with or without the key repo_type)                     *)

NoFile == [state |-> "missing", has_repo_type |-> FALSE, repo_type |-> PyNone]

NotJson == [state |-> "not_json", has_repo_type |-> FALSE, repo_type |-> PyNone]

\* {"username": ..., "password": ...}
JsonWithoutRepoType == [state |-> "json", has_repo_type |-> FALSE, repo_type |-> PyNone]

\* {"repo_type": repo_type, "username": ..., "password": ...}
Json(repo_type) == [state |-> "json", has_repo_type |-> TRUE, repo_type |-> repo_type]

\* what the name is bound to in the module myrepository, which also holds the
\* names of "from myfactory import *": a repository class, a class whose
\* __init__ takes two arguments, another class, a function, another object, or
\* nothing
ModuleAttr(name) ==
    CASE name \in {"RepositoryRAM", "RepositoryBytearray", "RepositoryMySQL"} -> "repository"
      [] name \in {"TypeChecker", "DictChecker"} -> "descriptor"
      [] name \in {"UserFactory", "User", "AbstractRepository", "RepositoryCreator"} -> "class"
      [] name \in {"measure_time", "memoize"} -> "function"
      [] name \in {"json", "DB_NAME"} -> "object"
      [] OTHER -> "absent"

\* RepositoryCreator.__get_options: [exc, has_repo_type, repo_type]; OSError
\* and KeyError are caught and leave the defaults, which have no repo_type
RepositoryCreator_get_options(file) ==
    IF file.state = "missing"
    THEN [exc |-> "none", has_repo_type |-> FALSE, repo_type |-> PyNone]
    ELSE IF file.state = "not_json"
    THEN [exc |-> "JSONDecodeError", has_repo_type |-> FALSE, repo_type |-> PyNone]
    ELSE [exc |-> "none", has_repo_type |-> file.has_repo_type,
          repo_type |-> IF file.has_repo_type THEN file.repo_type ELSE PyNone]

\* RepositoryCreator.create: getattr(sys.modules[__name__], options["repo_type"])
\* called with (options, fact); [exc, repository, table], repository the name of
\* the class of the object returned
RepositoryCreator_create(file, tbl, db, outcome) ==
    LET options == RepositoryCreator_get_options(file)
        raised(e) == [exc |-> e, repository |-> "none", table |-> tbl, conns |-> << >>]
    IN  IF options.exc # "none" THEN raised(options.exc)
        ELSE IF ~options.has_repo_type THEN raised("KeyError")
        ELSE IF options.repo_type.type # "str" THEN raised("TypeError")
        ELSE LET name == options.repo_type.val
                 kind == ModuleAttr(name)
             IN  IF kind = "absent" THEN raised("AttributeError")
                 ELSE IF kind \in {"class", "function", "object"} THEN raised("TypeError")
                 ELSE IF name = "RepositoryMySQL"
                 THEN LET i == MySQL_init_db(tbl, db, outcome)
                      IN  IF i.exc # "none"
                          THEN [exc |-> i.exc, repository |-> "none", table |-> tbl,
                                conns |-> i.conns]
                          ELSE [exc |-> "none", repository |-> name, table |-> i.table,
                                conns |-> i.conns]
                 ELSE [exc |-> "none", repository |-> name, table |-> tbl,
                       conns |-> << >>]

-----------------------------------------------------------------------------
(* The runs: which repositories are built, and the calls made on them *)

RAM == "RepositoryRAM"

BA == "RepositoryBytearray"

MySQL == "RepositoryMySQL"

\* one repository of each class alone, and RepositoryRAM beside RepositoryMySQL
Harnesses == {{RAM}, {BA}, {MySQL}, {RAM, MySQL}}

\* the ids of the calls of a run: a byte-addressed run uses slots 1, 2 and
\* MAX_RECORDS and the ids around the addressable range; a run with a failing
\* server uses 1..2; the other runs use 1..MaxId and, alone, the sentinel's id,
\* beside RepositoryRAM the id 0
CallIds ==
    IF repos = {BA} THEN {-MAX_RECORDS, 0, 1, 2, MAX_RECORDS, MAX_RECORDS + 1}
    ELSE IF db_faults THEN 1..2
    ELSE IF repos = {RAM, MySQL} THEN 0..MaxId
    ELSE {SENTINEL_ID} \cup 1..MaxId

\* the titles add and update are called with, for an id
CallTitles(k) ==
    IF repos = {BA}
    THEN CASE k = 1 -> {Empty, PyotrPervy, TooLong}
           [] k = 2 -> {AleksandrPushkin, ASPushkin}
           [] k = MAX_RECORDS -> {EAcute, BNul, TooLong}
           [] OTHER -> {LetterB}
    ELSE IF repos = {MySQL} /\ ~db_faults
    THEN CASE k = 1 -> {Empty, PyotrPervy, TooLongForColumn}
           [] k = 2 -> {AleksandrPushkin, ASPushkin, DropTable}
           [] OTHER -> {Empty, PyotrPervy}
    ELSE IF k = 2 THEN {AleksandrPushkin, ASPushkin} ELSE {Empty, PyotrPervy}

\* the outcomes a query can have in this run
QueryOutcomes == IF db_faults THEN {"ok", "error", "noconn"} ELSE {"ok"}

\* the scenario of the cross-backend equivalence test
Scenario ==
    << [op |-> "add", id |-> 1, title |-> PyotrPervy],
       [op |-> "add", id |-> 2, title |-> AleksandrPushkin],
       [op |-> "list", id |-> 0, title |-> Empty],
       [op |-> "update", id |-> 2, title |-> ASPushkin],
       [op |-> "delete", id |-> 1, title |-> Empty],
       [op |-> "list", id |-> 0, title |-> Empty] >>

\* scen counts the calls of a run that has made exactly the first scen calls
\* of Scenario, and is Len(Scenario) + 1 once the run has left the scenario
ScenarioStep(n, c) ==
    IF n < Len(Scenario) /\ c = Scenario[n + 1] THEN n + 1 ELSE Len(Scenario) + 1

\* no call has been made yet
NoCall == [op |-> "none", id |-> 0, title |-> Empty]

\* the ids create is called with: integers, a bool, a str, a float and None
CreateIds == {PyInt(1), PyInt(SENTINEL_ID), PyBool(TRUE), PyStr("1"), PyFloat(1), PyNone}

\* the properties create is called with: dicts with and without the key
\* "title", a list and None
CreateProperties ==
    {PyDict("title" :> LetterB), PyDict("title" :> Empty),
     PyDict(("title" :> PyotrPervy) @@ ("extra" :> LetterB)),
     PyDict(("title" :> PyotrPervy) @@ ("id" :> LetterB)),
     PyDict("tit" :> LetterB), PyDict(<< >>),
     PyList(<<"title", "des">>), PyNone}

\* a call on the factory that takes no arguments
FactoryCall(op) == [op |-> op, user_id |-> PyNone, properties |-> PyNone]

\* no call has been made on the factory yet
NoFactoryCall == FactoryCall("none")

\* the values of repo_type in the options file
RepoTypes ==
    {PyStr(name) : name \in {"RepositoryRAM", "RepositoryBytearray", "RepositoryMySQL",
                             "TypeChecker", "DictChecker", "UserFactory", "User",
                             "AbstractRepository", "RepositoryCreator",
                             "measure_time", "json", "DB_NAME", "Repository", ""}}
        \cup {PyInt(5), PyNone}

\* the contents the options file can have
OptionsFiles == {NoFile, NotJson, JsonWithoutRepoType} \cup {Json(t) : t \in RepoTypes}

\* no call of RepositoryCreator.create has been made
\* the threads that serve requests at the same time
Threads == {1, 2}

\* a thread that is in no call of the repository
IdleThread ==
    [pc |-> "idle", op |-> "none", id |-> 0, title |-> Empty, results |-> << >>,
     absent |-> FALSE, ret |-> RetStatus("none", OK)]

NoCreation ==
    [op |-> "none", file |-> NoFile, server |-> "none", exc |-> "none",
     repository |-> "none"]

Init ==
    /\ repos \in Harnesses
    /\ db_faults \in (IF repos = {MySQL} THEN BOOLEAN ELSE {FALSE})
    /\ ram_db = << >>
    /\ ba_db = BA_init
    /\ table = EmptyMap
    /\ cache = EmptyMap
    /\ call = NoCall
    /\ res = [b \in repos |-> RetStatus("none", OK)]
    /\ scen = 0
    /\ UserFactory_empty_entity = UserFactory_create_empty(1)
    /\ fcall = NoFactoryCall
    /\ fres = [exc |-> "none", obj |-> NoObject]
    /\ held = NoObject
    /\ get_dict_result = NoDict
    /\ options_file = NoFile
    /\ creation = NoCreation
    /\ db_exists = TRUE
    /\ connections = << >>
    /\ threads = [t \in Threads |-> IdleThread]

\* the call c is made on every repository of the run; ram, ba and sql are what
\* the three classes make of it
Dispatch(c, ram, ba, sql) ==
    /\ ram_db' = IF RAM \in repos THEN ram.db ELSE ram_db
    /\ ba_db' = IF BA \in repos THEN ba.db ELSE ba_db
    /\ table' = IF MySQL \in repos THEN sql.table ELSE table
    /\ cache' = IF MySQL \in repos THEN sql.cache ELSE cache
    /\ res' = [b \in repos |-> IF b = RAM THEN ram.ret
                               ELSE IF b = BA THEN ba.ret ELSE sql.ret]
    /\ call' = c
    /\ scen' = ScenarioStep(scen, c)
    /\ connections' = IF MySQL \in repos THEN sql.conns ELSE connections
    /\ UNCHANGED <<repos, db_faults, UserFactory_empty_entity, fcall, fres, held, get_dict_result, threads,
                   options_file, creation, db_exists>>

\* repo.get(k)
Get ==
    \E k \in CallIds, o1 \in QueryOutcomes :
        Dispatch([op |-> "get", id |-> k, title |-> Empty],
                 RAM_get(ram_db, k), BA_get(ba_db, k), MySQL_get(table, cache, k, o1))

\* repo.list()
List ==
    \E o1 \in QueryOutcomes :
        Dispatch([op |-> "list", id |-> 0, title |-> Empty],
                 RAM_list(ram_db), BA_list(ba_db), MySQL_list(table, cache, o1))

\* repo.add(factory.create(k, {"title": t}))
Add ==
    \E k \in CallIds, o1 \in QueryOutcomes, o2 \in QueryOutcomes :
        \E t \in CallTitles(k) :
            Dispatch([op |-> "add", id |-> k, title |-> t],
                     RAM_add(ram_db, create(k, t)), BA_add(ba_db, create(k, t)),
                     MySQL_add(table, cache, create(k, t), o1, o2))

\* repo.delete(k)
Delete ==
    \E k \in CallIds, o1 \in QueryOutcomes, o2 \in QueryOutcomes :
        Dispatch([op |-> "delete", id |-> k, title |-> Empty],
                 RAM_delete(ram_db, k), BA_delete(ba_db, k),
                 MySQL_delete(table, cache, k, o1, o2))

\* repo.update(factory.create(k, {"title": t}))
Update ==
    \E k \in CallIds, o1 \in QueryOutcomes, o2 \in QueryOutcomes :
        \E t \in CallTitles(k) :
            Dispatch([op |-> "update", id |-> k, title |-> t],
                     RAM_update(ram_db, create(k, t)), BA_update(ba_db, create(k, t)),
                     MySQL_update(table, cache, create(k, t), o1, o2))

Next == Get \/ List \/ Add \/ Delete \/ Update

Spec == Init /\ [][Next]_vars

\* what a call on the factory leaves alone
RepositoriesUnchanged ==
    UNCHANGED <<repos, db_faults, ram_db, ba_db, table, cache, call, res, scen,
                options_file, creation, db_exists, connections, threads>>

\* factory.create(user_id, properties)
Create ==
    \E user_id \in CreateIds, properties \in CreateProperties :
        /\ fcall' = [op |-> "create", user_id |-> user_id, properties |-> properties]
        /\ fres' = UserFactory_create(UserFactory_empty_entity, user_id, properties)
        /\ UNCHANGED <<UserFactory_empty_entity, held, get_dict_result>>
        /\ RepositoriesUnchanged

\* UserFactory.create_empty()
CreateEmpty ==
    /\ UserFactory_empty_entity.ref < MaxSentinels
    /\ UserFactory_empty_entity' =
           UserFactory_create_empty(UserFactory_empty_entity.ref + 1)
    /\ fcall' = FactoryCall("create_empty")
    /\ fres' = [exc |-> "none", obj |-> UserFactory_empty_entity']
    /\ UNCHANGED <<held, get_dict_result>>
    /\ RepositoriesUnchanged

\* UserFactory(): __init__ calls UserFactory.create_empty()
NewFactory ==
    /\ UserFactory_empty_entity.ref < MaxSentinels
    /\ UserFactory_empty_entity' =
           UserFactory_create_empty(UserFactory_empty_entity.ref + 1)
    /\ fcall' = FactoryCall("UserFactory")
    /\ fres' = [exc |-> "none", obj |-> NoObject]
    /\ UNCHANGED <<held, get_dict_result>>
    /\ RepositoriesUnchanged

\* entity = repo.get(id) for an id that is not stored: every repository
\* returns self.__factory.empty_entity
GetSentinel ==
    /\ held' = UserFactory_empty_entity
    /\ fcall' = FactoryCall("get")
    /\ fres' = [exc |-> "none", obj |-> UserFactory_empty_entity]
    /\ UNCHANGED <<UserFactory_empty_entity, get_dict_result>>
    /\ RepositoriesUnchanged

\* entity.get_dict() on the entity that the last call on the factory returned
GetDict ==
    /\ fres.obj # NoObject
    /\ LET r == User_get_dict(fres.obj)
       IN  /\ get_dict_result' = r.result
           /\ fres' = [exc |-> "none", obj |-> r.self]
    /\ fcall' = FactoryCall("get_dict")
    /\ UNCHANGED <<UserFactory_empty_entity, held>>
    /\ RepositoriesUnchanged

NextFactory == Create \/ CreateEmpty \/ NewFactory \/ GetSentinel \/ GetDict

\* the factory alone, beside freshly built repositories
SpecFactory == Init /\ [][NextFactory]_vars

\* the runs of one RepositoryMySQL
InitShared == Init /\ repos = {MySQL}

\* another process works on the same database with its own RepositoryMySQL: its
\* INSERT or UPDATE of a row, its DELETE of a row, or its __init_db, which drops
\* and recreates the table; this repository's cache is not told
OtherProcess ==
    /\ MySQL \in repos
    /\ db_exists
    /\ \E k \in CallIds :
          \E t \in CallTitles(k) :
              table' \in {SQL_insert(table, k, t).table, SQL_update(table, k, t).table,
                          SQL_delete(table, k).table, EmptyMap}
    /\ UNCHANGED <<repos, db_faults, ram_db, ba_db, cache, call, res, scen,
                   UserFactory_empty_entity, fcall, fres, held, get_dict_result, threads,
                   options_file, creation, db_exists, connections>>

NextShared == Next \/ OtherProcess

\* one RepositoryMySQL on a database that other processes change
SpecShared == InitShared /\ [][NextShared]_vars

\* somebody writes or removes the options file
EditOptions ==
    /\ options_file' \in OptionsFiles
    /\ UNCHANGED <<repos, db_faults, ram_db, ba_db, table, cache, call, res, scen,
                   UserFactory_empty_entity, fcall, fres, held, get_dict_result, threads,
                   creation, db_exists,
                   connections>>

\* the administrator of the MySQL server drops the database DB_NAME with its
\* tables, or creates it
Administer ==
    /\ db_exists' = ~db_exists
    /\ table' = EmptyMap
    /\ UNCHANGED <<repos, db_faults, ram_db, ba_db, cache, call, res, scen,
                   UserFactory_empty_entity, fcall, fres, held, get_dict_result, threads,
                   options_file, creation,
                   connections>>

\* repo = RepositoryCreator.create(factory): when it returns, the new object
\* replaces the repository there was; when it raises, nothing is replaced;
\* creation.server is the outcome of the statements of a RepositoryMySQL's
\* construction
CreateRepository ==
    \E outcome \in {"ok", "error", "noconn"} :
        LET c == RepositoryCreator_create(options_file, table, db_exists, outcome)
        IN  /\ connections' = c.conns
            /\ creation' = [op |-> "create", file |-> options_file,
                            server |-> IF options_file = Json(PyStr(MySQL))
                                       THEN outcome ELSE "none",
                            exc |-> c.exc, repository |-> c.repository]
            /\ IF c.exc # "none"
               THEN UNCHANGED <<repos, ram_db, ba_db, table, cache, call, res, scen>>
               ELSE /\ repos' = IF ModuleAttr(c.repository) = "repository"
                                THEN {c.repository} ELSE {}
                    /\ ram_db' = << >>
                    /\ ba_db' = BA_init
                    /\ table' = c.table
                    /\ cache' = EmptyMap
                    /\ call' = NoCall
                    /\ res' = [b \in repos' |-> RetStatus("none", OK)]
                    /\ scen' = 0
            /\ UNCHANGED <<db_faults, UserFactory_empty_entity, fcall, fres, held, get_dict_result, threads,
                           options_file, db_exists>>

NextCreator == EditOptions \/ Administer \/ CreateRepository \/ OtherProcess

\* the start of the process: the repository is built from the options file
SpecCreator == Init /\ [][NextCreator]_vars

-----------------------------------------------------------------------------
(* Calls that overlap: the repository holds no lock, and each thread of the  *)
(* server makes one call on the one repository of the process.  A step is a  *)
(* part of the call between two accesses to the list, the cache or the       *)
(* database.                                                                 *)

\* the ids and the title of the call of a thread
ThreadIds == {1, 2}

ThreadTitle(t) == IF t = 1 THEN PyotrPervy ELSE AleksandrPushkin

\* the calls made at the same time on the repository of the run
ThreadOps == IF repos = {RAM} THEN {"add"} ELSE {"get", "add", "delete", "update"}

\* a store that calls made one after the other have left
InitThreads ==
    /\ repos \in {{RAM}, {MySQL}}
    /\ db_faults = FALSE
    /\ ram_db \in (IF repos = {RAM} THEN {<< >>, <<User(2, ASPushkin)>>} ELSE {<< >>})
    /\ ba_db = BA_init
    /\ table \in (IF repos = {MySQL} THEN {EmptyMap, 1 :> ASPushkin} ELSE {EmptyMap})
    /\ cache \in {EmptyMap} \cup
                 (IF repos = {MySQL} THEN {k :> SQL_select(table, k) : k \in ThreadIds}
                  ELSE {})
    /\ call = NoCall
    /\ res = [b \in repos |-> RetStatus("none", OK)]
    /\ scen = 0
    /\ UserFactory_empty_entity = UserFactory_create_empty(1)
    /\ fcall = NoFactoryCall
    /\ fres = [exc |-> "none", obj |-> NoObject]
    /\ held = NoObject
    /\ get_dict_result = NoDict
    /\ options_file = NoFile
    /\ creation = NoCreation
    /\ db_exists = TRUE
    /\ connections = << >>
    /\ threads = [t \in Threads |-> IdleThread]

\* what a step of a thread leaves alone
ThreadFrame ==
    UNCHANGED <<repos, db_faults, ba_db, call, res, scen, UserFactory_empty_entity,
                fcall, fres, held, get_dict_result, options_file, creation, db_exists>>

\* an append that first takes the entities with the same id out of the list
RAM_append_unique(db, entity) ==
    Append(SelectSeq(db, LAMBDA e : e.id # entity.id), entity)

\* self.__db.append(entity)
RAM_append(db, entity) == Append(db, entity)

\* the thread t enters repo.add, repo.get, repo.delete or repo.update
ThreadCall(t) ==
    /\ threads[t].pc = "idle"
    /\ \E op \in ThreadOps, k \in ThreadIds :
          threads' = [threads EXCEPT ![t] =
                         [IdleThread EXCEPT !.pc = IF repos = {RAM} THEN "get_index"
                                                  ELSE "in_cache",
                                            !.op = op, !.id = k,
                                            !.title = ThreadTitle(t)]]
    /\ UNCHANGED <<ram_db, table, cache, connections>>
    /\ ThreadFrame

\* RepositoryRAM.add: if self.__get_index(entity.id) == -1, else return -1
ThreadGetIndex(t) ==
    /\ threads[t].pc = "get_index"
    /\ threads' = [threads EXCEPT ![t] =
                      IF RAM_get_index(ram_db, @.id) = -1
                      THEN [@ EXCEPT !.pc = "append", !.absent = TRUE]
                      ELSE [@ EXCEPT !.pc = "done", !.ret = RetStatus(threads[t].op, FAIL)]]
    /\ UNCHANGED <<ram_db, table, cache, connections>>
    /\ ThreadFrame

\* RepositoryRAM.add: self.__db.append(entity); return 0
ThreadAppend(t) ==
    /\ threads[t].pc = "append"
    /\ ram_db' = RAM_append(ram_db, create(threads[t].id, threads[t].title))
    /\ threads' = [threads EXCEPT ![t] =
                      [@ EXCEPT !.pc = "done", !.ret = RetStatus(threads[t].op, OK)]]
    /\ UNCHANGED <<table, cache, connections>>
    /\ ThreadFrame

\* RepositoryMySQL.get from "if len(results) == 0" on, in the thread th that has
\* the results: get returns the entity; add goes on when self.get(...).id is
\* -1, delete and update when it is not, and they return -1 otherwise
ThreadAfterGet(th, results) ==
    LET entity == IF Len(results) = 0 THEN empty_entity
                  ELSE create(results[1].id, results[1].title)
        absent == entity.id = -1
    IN  IF th.op = "get"
        THEN [th EXCEPT !.pc = "done", !.results = results, !.absent = absent,
                        !.ret = RetEntity("get", entity)]
        ELSE IF (th.op = "add") = absent
        THEN [th EXCEPT !.pc = "statement", !.results = results, !.absent = absent]
        ELSE [th EXCEPT !.pc = "done", !.results = results, !.absent = absent,
                        !.ret = RetStatus(th.op, FAIL)]

\* RepositoryMySQL.get: if key in self._cache
ThreadInCache(t) ==
    /\ threads[t].pc = "in_cache"
    /\ threads' = [threads EXCEPT ![t].pc =
                      IF threads[t].id \in DOMAIN cache THEN "cached" ELSE "select"]
    /\ UNCHANGED <<ram_db, table, cache, connections>>
    /\ ThreadFrame

\* RepositoryMySQL.get: results = self._cache[key], which raises KeyError when
\* self._cache has been replaced since the test
ThreadCached(t) ==
    /\ threads[t].pc = "cached"
    /\ threads' = [threads EXCEPT ![t] =
                      IF @.id \in DOMAIN cache THEN ThreadAfterGet(@, cache[@.id])
                      ELSE [@ EXCEPT !.pc = "done", !.ret = Raised(threads[t].op, "KeyError")]]
    /\ UNCHANGED <<ram_db, table, cache, connections>>
    /\ ThreadFrame

\* RepositoryMySQL.get: results = self.__make_query("SELECT ...")
ThreadSelect(t) ==
    /\ threads[t].pc = "select"
    /\ LET q == MySQL_make_query(table, [table |-> table, error |-> FALSE],
                                 SQL_select(table, threads[t].id), "ok")
       IN  /\ threads' = [threads EXCEPT ![t] =
                             [@ EXCEPT !.pc = "store", !.results = q.results]]
           /\ connections' = q.conns
    /\ UNCHANGED <<ram_db, table, cache>>
    /\ ThreadFrame

\* RepositoryMySQL.get: self._cache[key] = results, and the rest of get
ThreadStore(t) ==
    /\ threads[t].pc = "store"
    /\ cache' = MapPut(cache, threads[t].id, threads[t].results)
    /\ threads' = [threads EXCEPT ![t] = ThreadAfterGet(@, @.results)]
    /\ UNCHANGED <<ram_db, table, connections>>
    /\ ThreadFrame

\* RepositoryMySQL.add, delete, update: self.__make_query of the INSERT, DELETE
\* or UPDATE
ThreadStatement(t) ==
    /\ threads[t].pc = "statement"
    /\ LET th == threads[t]
           effect == CASE th.op = "add" -> SQL_insert(table, th.id, th.title)
                       [] th.op = "delete" -> SQL_delete(table, th.id)
                       [] OTHER -> SQL_update(table, th.id, th.title)
           q == MySQL_make_query(table, effect, << >>, "ok")
       IN  /\ table' = q.table
           /\ connections' = q.conns
    /\ threads' = [threads EXCEPT ![t].pc = "clear_cache"]
    /\ UNCHANGED <<ram_db, cache>>
    /\ ThreadFrame

\* RepositoryMySQL.add, delete, update: self.__clear_cache(); return 0
ThreadClearCache(t) ==
    /\ threads[t].pc = "clear_cache"
    /\ cache' = MySQL_clear_cache(cache)
    /\ threads' = [threads EXCEPT ![t] =
                      [@ EXCEPT !.pc = "done", !.ret = RetStatus(threads[t].op, OK)]]
    /\ UNCHANGED <<ram_db, table, connections>>
    /\ ThreadFrame

NextThreads ==
    \E t \in Threads :
        \/ ThreadCall(t)
        \/ ThreadGetIndex(t)
        \/ ThreadAppend(t)
        \/ ThreadInCache(t)
        \/ ThreadCached(t)
        \/ ThreadSelect(t)
        \/ ThreadStore(t)
        \/ ThreadStatement(t)
        \/ ThreadClearCache(t)

\* two threads, each making one call on the repository of the process
SpecThreads == InitThreads /\ [][NextThreads]_vars

-----------------------------------------------------------------------------
(* What a caller can observe of a repository b of the run *)

\* whether an entity with the id k is stored in b: get(k) finds a record
Stored(b, k) ==
    IF b = RAM THEN RAM_get_index(ram_db, k) # -1
    ELSE IF b = BA
    THEN /\ ~PyIndexError(Len(ba_db), BA_get_address(k).first_byte)
         /\ PyItem(ba_db, BA_get_address(k).first_byte) # 0
    ELSE k \in DOMAIN table

\* the step leaves the stored data of b as it was
StoreUnchanged(b) ==
    IF b = RAM THEN ram_db' = ram_db
    ELSE IF b = BA THEN ba_db' = ba_db
    ELSE table' = table

\* what get(k) returns on b in the current state, the server answering
GetNow(b, k) ==
    IF b = RAM THEN RAM_get(ram_db, k).ret
    ELSE IF b = BA THEN BA_get(ba_db, k).ret
    ELSE MySQL_get(table, cache, k, "ok").ret

\* what get(k) returns on b after the step, the server answering
GetNext(b, k) ==
    IF b = RAM THEN RAM_get(ram_db', k).ret
    ELSE IF b = BA THEN BA_get(ba_db', k).ret
    ELSE MySQL_get(table', cache', k, "ok").ret

\* whether b holds nothing: no entity in the list, no occupied slot, no row
StoreEmpty(b) ==
    IF b = RAM THEN ram_db = << >>
    ELSE IF b = BA THEN \A k \in 1..MAX_RECORDS : ~Stored(BA, k)
    ELSE DOMAIN table = {}

\* the positions in ba_db of the record of the id k
SlotBytes(k) == ((k - 1) * RECORD_WIDTH + 1)..(k * RECORD_WIDTH)

\* add_user: the status code of POST /user/<id>?title=..., given what
\* repo.add(factory.create(user_id, {'title': title})) did; Flask answers 500
\* when the view raises
add_user(ret) ==
    IF ret.exc # "none" THEN 500
    ELSE IF ret.status = -1 THEN 422 ELSE 204

\* del_user: the status code of DELETE /user/<id>, given what
\* repo.delete(user_id) did
del_user(ret) ==
    IF ret.exc # "none" THEN 500
    ELSE IF ret.status = -1 THEN 404 ELSE 204

\* upd_user: the status code of PATCH /user/<id>?title=..., given what
\* repo.update(factory.create(user_id, {'title': title})) did
upd_user(ret) ==
    IF ret.exc # "none" THEN 500
    ELSE IF ret.status = -1 THEN 404 ELSE 204

\* the status code of the request that made the call c and got ret from the
\* repository
StatusCode(c, ret) ==
    CASE c.op = "add" -> add_user(ret)
      [] c.op = "delete" -> del_user(ret)
      [] c.op = "update" -> upd_user(ret)
      [] OTHER -> 200

\* the entities of the rows of the table, in primary-key order
TableEntities(tbl) ==
    LET rows == SQL_select_all(tbl, DOMAIN tbl)
    IN  [i \in 1..Len(rows) |-> User(rows[i].id, rows[i].title)]

-----------------------------------------------------------------------------
(* The claims *)

\* C1: RAM backend, calls executed one at a time: after any sequence of
\* get/list/add/delete/update calls no two stored entities have the same id.
C1_UniqueIds ==
    RAM \in repos =>
        \A i, j \in 1..Len(ram_db) : ram_db[i].id = ram_db[j].id => i = j

\* C1 witness: two entities are stored and an add of a stored id was just refused.
C1_Witness ==
    /\ RAM \in repos
    /\ Len(ram_db) >= 2
    /\ call.op = "add"
    /\ res[RAM] = RetStatus("add", FAIL)

\* C2: on each backend, add(entity) called while an entity with the same id is
\* stored returns -1 and leaves the store exactly as it was.
C2_AddConflict ==
    [][\A b \in repos :
          (call'.op = "add" /\ Stored(b, call'.id)) =>
              (res'[b] = RetStatus("add", FAIL) /\ StoreUnchanged(b))]_vars

\* C3: on each backend, update(entity) called while no entity with entity.id is
\* stored returns -1 and leaves the store unchanged.
C3_UpdateMissing ==
    [][\A b \in repos :
          (call'.op = "update" /\ ~Stored(b, call'.id)) =>
              (res'[b] = RetStatus("update", FAIL) /\ StoreUnchanged(b))]_vars

\* C4: on each backend, delete(id) called while the id is not stored returns -1
\* and leaves the store unchanged; when the id is stored it returns 0 and
\* afterwards get(id) finds nothing.
C4_Delete ==
    [][\A b \in repos :
          call'.op = "delete" =>
              IF Stored(b, call'.id)
              THEN /\ res'[b] = RetStatus("delete", OK)
                   /\ GetNext(b, call'.id) = RetEntity("get", empty_entity)
              ELSE /\ res'[b] = RetStatus("delete", FAIL)
                   /\ StoreUnchanged(b)]_vars

\* C5: RAM backend round trip: after add(entity(k, P)) returns 0, get(k) returns
\* the entity with id k and properties P, and get(k) keeps returning the stored
\* entity over every step that is not a successful update or delete of k.
C5_RamRoundTrip ==
    [][\A k \in CallIds :
          RAM \in repos =>
              /\ (call'.op = "add" /\ call'.id = k /\ res'[RAM] = RetStatus("add", OK))
                    => GetNext(RAM, k) = RetEntity("get", User(k, call'.title))
              /\ (/\ Stored(RAM, k)
                  /\ ~(/\ call'.op \in {"update", "delete"}
                       /\ call'.id = k
                       /\ res'[RAM].status = OK))
                    => GetNext(RAM, k) = GetNow(RAM, k)]_vars

\* C5 witness: add(entity(1, "Pyotr Pervy")) just returned 0 on a store that
\* already held another entity.
C5_Witness ==
    /\ RAM \in repos
    /\ call = [op |-> "add", id |-> 1, title |-> PyotrPervy]
    /\ res[RAM] = RetStatus("add", OK)
    /\ Len(ram_db) >= 2

\* C6: byte-addressed round trip: for k in 1..MAX_RECORDS and a title of at most
\* RECORD_WIDTH bytes, after add(entity(k, title)) returns 0, get(k) returns the
\* entity with id k and exactly that title.
C6_BytesRoundTrip ==
    (/\ BA \in repos
     /\ call.op = "add"
     /\ call.id \in 1..MAX_RECORDS
     /\ Len(Utf8Encode(call.title)) <= RECORD_WIDTH
     /\ res[BA] = RetStatus("add", OK))
        => GetNow(BA, call.id) = RetEntity("get", User(call.id, call.title))

\* C7: relational backend, one process, all queries succeeding: get(k) returns
\* the row the table holds for k, or the sentinel when there is none, whatever
\* was cached before; nothing stale is served after a mutation.
C7_CacheCoherent ==
    (MySQL \in repos /\ ~db_faults) =>
        /\ \A k \in CallIds :
              GetNow(MySQL, k) =
                  RetEntity("get", IF k \in DOMAIN table THEN User(k, table[k])
                                   ELSE empty_entity)
        /\ call.op = "get" => res[MySQL] = GetNow(MySQL, call.id)

\* C7 witness: get(2) is answered with the title an update wrote, and the answer
\* is in the cache.
C7_Witness ==
    /\ repos = {MySQL}
    /\ ~db_faults
    /\ call = [op |-> "get", id |-> 2, title |-> Empty]
    /\ 2 \in DOMAIN cache
    /\ 1 \in DOMAIN cache
    /\ res[MySQL] = RetEntity("get", User(2, ASPushkin))

\* C8: the scenario add(1, "Pyotr Pervy"), add(2, "Aleksandr Pushkin"), list(),
\* update(2, "A.S. Pushkin"), delete(1), list(), run on an empty store whose
\* server answers, ends on every backend with list() returning exactly the
\* entity with id 2 and title "A.S. Pushkin".
C8_Scenario ==
    (scen = Len(Scenario) /\ ~db_faults) =>
        \A b \in repos : res[b] = RetList("list", <<User(2, ASPushkin)>>)

\* C9: for every sequence of get/add/delete/update calls with ids other than -1,
\* made on a relational backend whose queries succeed and on a RAM backend,
\* each call returns the same status, and each get the same id and title, on both.
C9_MySQLLikeRAM ==
    (repos = {RAM, MySQL} /\ call.op # "list") =>
        /\ res[MySQL] = res[RAM]
        /\ \A k \in CallIds : GetNow(MySQL, k) = GetNow(RAM, k)

\* C9 witness: both repositories answered get(2) with the updated title.
C9_Witness ==
    /\ repos = {RAM, MySQL}
    /\ call = [op |-> "get", id |-> 2, title |-> Empty]
    /\ res[RAM] = RetEntity("get", User(2, ASPushkin))
    /\ Len(ram_db) >= 2

\* C10: on each backend, the get(k) that follows a delete(k) that returned 0
\* returns the sentinel entity (id -1, empty title).
C10_GetAfterDelete ==
    [][\A b \in repos :
          (/\ call.op = "delete"
           /\ res[b] = RetStatus("delete", OK)
           /\ call'.op = "get"
           /\ call'.id = call.id)
              => res'[b] = RetEntity("get", empty_entity)]_vars

\* C11: on each backend, get(id) for an id that is not stored returns the
\* factory's sentinel entity and raises no error, for every integer id whatever
\* its size or sign.
C11_GetMissing ==
    [][\A b \in repos :
          (call'.op = "get" /\ ~Stored(b, call'.id))
              => res'[b] = RetEntity("get", empty_entity)]_vars

\* C12: on each backend, list() on a store that holds nothing returns an empty
\* sequence, and no list() result ever contains the sentinel entity.
C12_ListEmpty ==
    \A b \in repos :
        call.op = "list" =>
            /\ StoreEmpty(b) => res[b] = RetList("list", << >>)
            /\ \A i \in 1..Len(res[b].entities) : res[b].entities[i] # empty_entity

\* C13: byte-addressed backend: add and update for an id k of 1..MAX_RECORDS
\* change no byte of the buffer when the title's UTF-8 encoding is longer than
\* RECORD_WIDTH bytes, and never change a byte outside the record of k.
C13_WriteWithinSlot ==
    [][(/\ BA \in repos
        /\ call'.op \in {"add", "update"}
        /\ call'.id \in 1..MAX_RECORDS)
          => /\ Len(Utf8Encode(call'.title)) > RECORD_WIDTH => ba_db' = ba_db
             /\ \A j \in 1..Len(ba_db) :
                   j \notin SlotBytes(call'.id) => ba_db'[j] = ba_db[j]]_vars

\* C14: byte-addressed backend: add, update and delete called with an id outside
\* 1..MAX_RECORDS report an error (the status -1 or an exception) and change no
\* byte of the buffer.
C14_OutOfRange ==
    [][(/\ BA \in repos
        /\ call'.op \in {"add", "update", "delete"}
        /\ call'.id \notin 1..MAX_RECORDS)
          => /\ ba_db' = ba_db
             /\ res'[BA].status = FAIL \/ res'[BA].exc # "none"]_vars

\* C15: byte-addressed backend: after a successful add or update of an id k of
\* 1..MAX_RECORDS with a title of at most RECORD_WIDTH bytes, the record of k
\* holds the title's UTF-8 bytes left-aligned and zero in every remaining byte.
C15_SlotHoldsTitle ==
    (/\ BA \in repos
     /\ call.op \in {"add", "update"}
     /\ call.id \in 1..MAX_RECORDS
     /\ Len(Utf8Encode(call.title)) <= RECORD_WIDTH
     /\ res[BA] = RetStatus(call.op, OK))
        => \A j \in SlotBytes(call.id) :
               ba_db[j] =
                   IF j - (call.id - 1) * RECORD_WIDTH <= Len(Utf8Encode(call.title))
                   THEN Utf8Encode(call.title)[j - (call.id - 1) * RECORD_WIDTH]
                   ELSE 0

\* C16: byte-addressed backend: list() returns, in ascending order of id, exactly
\* the entities get(k) finds for the ids k of 1..MAX_RECORDS: every id whose
\* get(k) returns a non-sentinel entity is listed with that id and title, and
\* nothing else is listed.
C16_ListMatchesGet ==
    (BA \in repos /\ call.op = "list") =>
        LET l == res[BA].entities
        IN  /\ \A k \in 1..MAX_RECORDS :
                  (/\ GetNow(BA, k).exc = "none"
                   /\ GetNow(BA, k) # RetEntity("get", empty_entity))
                      => \E i \in 1..Len(l) : GetNow(BA, k) = RetEntity("get", l[i])
            /\ \A i \in 1..Len(l) :
                  /\ l[i].id \in 1..MAX_RECORDS
                  /\ GetNow(BA, l[i].id) = RetEntity("get", l[i])
            /\ \A i, j \in 1..Len(l) : i < j => l[i].id < l[j].id

\* C17: no entity with id -1 is ever stored in a RAM or relational repository:
\* add or update called with the sentinel entity leaves the store unchanged, and
\* the store never holds an entity with id -1.
C17_SentinelNotStored ==
    [][\A b \in repos \ {BA} :
          /\ call'.id = SENTINEL_ID /\ call'.op \in {"add", "update"}
                => StoreUnchanged(b)
          /\ ~Stored(b, SENTINEL_ID)']_vars

\* C18: UserFactory.create(id, properties) never raises: when id is an integer
\* and properties is a dict with the key "title" it returns an entity with
\* exactly that id and those properties, and otherwise it returns the sentinel
\* entity, the object in UserFactory.empty_entity, whose id is -1.
C18_CreateValidates ==
    fcall.op = "create" =>
        /\ fres.exc = "none"
        /\ IF /\ isinstance(fcall.user_id, "int")
              /\ isinstance(fcall.properties, "dict")
              /\ "title" \in DOMAIN fcall.properties.val
           THEN /\ fres.obj.id = fcall.user_id
                /\ fres.obj.properties = fcall.properties
                /\ ~Entity_eq(fres.obj, UserFactory_empty_entity)
           ELSE /\ fres.obj = UserFactory_empty_entity
                /\ fres.obj.id = PyInt(SENTINEL_ID)

\* C18 witness: create(1, {"tit": "B"}), whose dict lacks the key "title", has
\* returned the sentinel that a second create_empty() built.
C18_Witness ==
    /\ fcall = [op |-> "create", user_id |-> PyInt(1),
                properties |-> PyDict("tit" :> LetterB)]
    /\ fres.obj = UserFactory_empty_entity
    /\ fres.obj.ref = 2

\* C19: the factory builds the sentinel entity once: a call of create_empty()
\* or the construction of another UserFactory leaves UserFactory.empty_entity
\* the same object, so that a sentinel a caller got from get() before that call
\* still compares equal to factory.empty_entity after it.
C19_SentinelBuiltOnce ==
    [][(fcall'.op \in {"create_empty", "UserFactory"})
          => /\ UserFactory_empty_entity' = UserFactory_empty_entity
             /\ held # NoObject => Entity_eq(held', UserFactory_empty_entity')]_vars

\* C20: relational backend: when opening the connection fails or a statement
\* raises a database error, the query routine raises nothing, so that no
\* repository call ends with an exception.
C20_FailureGivesEmpty ==
    (MySQL \in repos /\ db_faults) => res[MySQL].exc = "none"

\* C21: relational backend: every add, delete or update that returns 0 leaves
\* the cache completely empty, and one that returns -1 changes no table row.
C21_MutationClearsCache ==
    [][(MySQL \in repos /\ call'.op \in {"add", "delete", "update"})
          => /\ res'[MySQL] = RetStatus(call'.op, OK) => cache' = EmptyMap
             /\ res'[MySQL] = RetStatus(call'.op, FAIL) => table' = table]_vars

\* C21 witness: delete(1) returned 0 on a table that keeps the row of id 2, and
\* the cache is empty.
C21_Witness ==
    /\ repos = {MySQL}
    /\ call.op = "delete" /\ call.id = 1
    /\ res[MySQL] = RetStatus("delete", OK)
    /\ 2 \in DOMAIN table
    /\ cache = EmptyMap

\* C22: relational backend: list() leaves the cache as it was, and its result
\* is the rows the table holds at the time of the call, also when another
\* process has changed the table since the previous call.
C22_ListNotCached ==
    [][List => /\ cache' = cache
               /\ res'[MySQL] = RetList("list", TableEntities(table))]_vars

\* C23: RAM backend: list() returns the stored entities in the order their add
\* calls succeeded: list() returns the list as it stands, a successful add puts
\* the entity at the end, a successful delete removes the entity of that id
\* and keeps the others in their order, and a successful update replaces the
\* entity where it stands and leaves every other entity unchanged.
C23_RamOrder ==
    [][(RAM \in repos /\ res'[RAM].status = OK) =>
          /\ call'.op = "add"
                => ram_db' = Append(ram_db, User(call'.id, call'.title))
          /\ call'.op = "delete"
                => ram_db' = SelectSeq(ram_db, LAMBDA e : e.id # call'.id)
          /\ call'.op = "update"
                => ram_db' = [j \in 1..Len(ram_db) |->
                                 IF ram_db[j].id = call'.id
                                 THEN User(call'.id, call'.title)
                                 ELSE ram_db[j]]
          /\ call'.op = "list"
                => res'[RAM] = RetList("list", ram_db) /\ ram_db' = ram_db]_vars

\* C23 witness: update(1, ...) returned 0 while the entity with id 1 stands
\* first in a list of at least two entities.
C23_Witness ==
    /\ RAM \in repos
    /\ call.op = "update" /\ call.id = 1
    /\ res[RAM] = RetStatus("update", OK)
    /\ Len(ram_db) >= 2
    /\ ram_db[1] = User(1, call.title)

\* C24: get(id) changes the stored data of no backend: the RAM list, the byte
\* buffer and the relational table are after the call what they were before
\* it, for stored and for non-stored ids.
C24_GetReadsOnly ==
    [][(call'.op = "get") => \A b \in repos : StoreUnchanged(b)]_vars

\* C24 witness: get(2) has returned the stored entity of the byte-addressed
\* repository, whose record of id 1 is occupied as well.
C24_Witness ==
    /\ repos = {BA}
    /\ call.op = "get" /\ call.id = 2
    /\ res[BA] = RetEntity("get", User(2, AleksandrPushkin))
    /\ Stored(BA, 1)

\* C25: byte-addressed backend: a successful delete(k) for k in 1..MAX_RECORDS
\* sets every byte of the record of k to zero and leaves every byte of every
\* other record unchanged.
C25_DeleteZeroesSlot ==
    [][(/\ BA \in repos
        /\ call'.op = "delete"
        /\ call'.id \in 1..MAX_RECORDS
        /\ res'[BA] = RetStatus("delete", OK))
          => \A j \in 1..Len(ba_db) :
                 ba_db'[j] = IF j \in SlotBytes(call'.id) THEN 0 ELSE ba_db[j]]_vars

\* C25 witness: delete(1) returned 0 and the record of id 1 is free, while the
\* record of id 2 is occupied.
C25_Witness ==
    /\ repos = {BA}
    /\ call.op = "delete" /\ call.id = 1
    /\ res[BA] = RetStatus("delete", OK)
    /\ ~Stored(BA, 1)
    /\ Stored(BA, 2)

\* C26: what RepositoryCreator.create returns is an instance of the repository
\* class that the configured repo_type names; for any other repo_type, and when
\* the options file is unreadable or has no repo_type, it raises instead of
\* returning an object.
C26_CreatorFailsLoud ==
    creation.op = "create" =>
        IF /\ creation.file.state = "json"
           /\ creation.file.has_repo_type
           /\ creation.file.repo_type \in {PyStr(RAM), PyStr(BA), PyStr(MySQL)}
        THEN creation.exc = "none" => creation.repository = creation.file.repo_type.val
        ELSE creation.exc # "none"

\* C27: the relational backend treats a title as data, never as SQL: on a
\* server that answers every statement, for every title, the one of the
\* injection test included, an add that returns 0 has stored the title
\* unchanged, a get that finds the row returns its title unchanged, and the
\* table and its other rows are still there afterwards.
C27_TitleIsData ==
    [][(MySQL \in repos /\ ~db_faults /\ call'.op \in {"add", "get"})
          => /\ (call'.op = "add" /\ res'[MySQL] = RetStatus("add", OK))
                   => /\ call'.id \in DOMAIN table'
                      /\ table'[call'.id] = call'.title
             /\ (call'.op = "get" /\ call'.id \in DOMAIN table /\ res'[MySQL].exc = "none")
                   => res'[MySQL].entities[1]
                         \in {empty_entity, User(call'.id, table[call'.id])}
             /\ \A j \in DOMAIN table \ {call'.id} :
                   j \in DOMAIN table' /\ table'[j] = table[j]]_vars

\* C28: constructing the relational backend on a server that answers every
\* statement leaves the database present and the users table present and empty,
\* whether or not the database existed and whatever rows the table held, and
\* list() right after the construction returns an empty sequence.
C28_ConstructionResets ==
    [][(CreateRepository /\ creation'.server = "ok")
          => /\ creation'.exc = "none"
             /\ db_exists'
             /\ table' = EmptyMap
             /\ MySQL_list(table', cache', "ok").ret = RetList("list", << >>)]_vars

\* C29: every connection the query routine opened during a repository call is
\* closed when the call has returned, whether its statement succeeded or
\* failed, so that no connection is open between two calls.
C29_ConnectionsClosed ==
    \A i \in 1..Len(connections) : connections[i] = "closed"

\* C30: get_dict(entity) returns a mapping whose first key is id, whose value
\* for id is entity.id and whose other keys and values are the entity's
\* properties, and it leaves the entity unchanged.
C30_GetDictId ==
    [][(fcall'.op = "get_dict")
          => /\ get_dict_result'.first = "id"
             /\ get_dict_result'.val["id"] = fres.obj.id
             /\ DOMAIN get_dict_result'.val = {"id"} \cup DOMAIN fres.obj.properties.val
             /\ \A k \in DOMAIN fres.obj.properties.val \ {"id"} :
                   get_dict_result'.val[k] = PyStr(fres.obj.properties.val[k])
             /\ fres'.obj = fres.obj]_vars

\* C31: over the RAM backend and for the ids a URL can carry, DELETE and PATCH
\* on an id that is not stored answer 422 and change nothing, POST on an id that
\* is stored answers 422 and changes nothing, and each of these requests on a
\* valid target answers 204.
C31_RejectedIs422 ==
    [][(RAM \in repos /\ call'.id >= 0 /\ call'.op \in {"add", "delete", "update"})
          => LET valid == IF call'.op = "add" THEN ~Stored(RAM, call'.id)
                          ELSE Stored(RAM, call'.id)
             IN  IF valid THEN StatusCode(call', res'[RAM]) = 204
                 ELSE /\ StatusCode(call', res'[RAM]) = 422
                      /\ StoreUnchanged(RAM)]_vars

\* C32: RAM backend, two add calls for the same id at the same time: when the
\* existence checks of both ran before either append, so that both found the
\* id absent, both calls return 0 and the store holds two entities with that
\* id, the entities of the two calls.
C32_RaceDuplicates ==
    repos = {RAM} =>
        \A t \in Threads, u \in Threads :
            (/\ t # u
             /\ threads[t].pc = "done" /\ threads[u].pc = "done"
             /\ threads[t].id = threads[u].id
             /\ threads[t].absent /\ threads[u].absent)
            => /\ threads[t].ret = RetStatus("add", OK)
               /\ threads[u].ret = RetStatus("add", OK)
               /\ Cardinality({i \in 1..Len(ram_db) : ram_db[i].id = threads[t].id}) = 2
               /\ \E i \in 1..Len(ram_db) :
                     ram_db[i] = User(threads[t].id, threads[t].title)

\* C32 witness: both threads have returned 0 from add(1, ...) and the list
\* holds two entities with the id 1.
C32_Witness ==
    /\ repos = {RAM}
    /\ \A t \in Threads :
          /\ threads[t].pc = "done" /\ threads[t].op = "add" /\ threads[t].id = 1
          /\ threads[t].ret = RetStatus("add", OK)
    /\ Cardinality({i \in 1..Len(ram_db) : ram_db[i].id = 1}) = 2

\* C33: relational backend, server answering, two add calls for the same id at
\* the same time: a call whose existence check found the id absent returns 0,
\* also when its INSERT comes after the other call's INSERT; that second INSERT
\* changes no row, so the table keeps the title of the first INSERT.
C33_RaceOneRow ==
    [][(repos = {MySQL})
          => \A t \in Threads :
                /\ (threads[t].op = "add" /\ threads[t].absent /\ threads'[t].pc = "done"
                        /\ threads[t].pc # "done")
                      => threads'[t].ret = RetStatus("add", OK)
                /\ (threads[t].op = "add" /\ threads[t].pc = "statement"
                        /\ threads'[t].pc # "statement"
                        /\ threads[t].id \in DOMAIN table)
                      => table' = table]_vars

\* C33 witness: both threads have returned 0 from add(1, ...), and the row 1
\* has the title of one of them.
C33_Witness ==
    /\ repos = {MySQL}
    /\ \A t \in Threads :
          /\ threads[t].pc = "done" /\ threads[t].op = "add" /\ threads[t].id = 1
          /\ threads[t].absent
          /\ threads[t].ret = RetStatus("add", OK)
    /\ 1 \in DOMAIN table
    /\ table[1] = ThreadTitle(2)

\* C34: relational backend, server answering: a get(k) and an add, update or
\* delete of k have run at the same time on one repository instance and both
\* have returned: the next get(k) returns the row the table has for k, or the
\* sentinel when the table has none.
C34_NoStaleCache ==
    (/\ repos = {MySQL}
     /\ \A t \in Threads : threads[t].pc = "done"
     /\ \E t \in Threads, u \in Threads :
           /\ threads[t].op = "get"
           /\ threads[u].op \in {"add", "update", "delete"}
           /\ threads[t].id = threads[u].id)
    => \A t \in Threads :
          MySQL_get(table, cache, threads[t].id, "ok").ret
             = RetEntity("get", IF threads[t].id \in DOMAIN table
                                THEN create(threads[t].id, table[threads[t].id])
                                ELSE empty_entity)

\* C35: relational backend: a get(k) whose SELECT failed leaves no entry for k
\* in the cache.
C35_FailedNotCached ==
    [][(MySQL \in repos /\ call'.op = "get" /\ res'[MySQL].exc = "none"
            /\ call'.id \notin DOMAIN cache
            /\ connections' = <<"open">>)
          => call'.id \notin DOMAIN cache']_vars

\* C36: relational backend, server answering every statement: an add, update or
\* delete that returns 0 has changed the table: the row of the id was inserted,
\* rewritten with the title given, or removed.
C36_ZeroMeansDone ==
    [][(MySQL \in repos /\ ~db_faults /\ call'.op \in {"add", "update", "delete"}
            /\ res'[MySQL] = RetStatus(call'.op, OK))
          => IF call'.op = "delete" THEN call'.id \notin DOMAIN table'
             ELSE /\ call'.id \in DOMAIN table'
                  /\ table'[call'.id] = call'.title]_vars

\* C37: byte-addressed backend, k in 1..MAX_RECORDS: add(entity(k, "")) on a slot
\* whose first byte is 0 returns 0 and writes nothing, so the slot still reads
\* as empty: get(k) returns the sentinel, list() has no entity with the id k,
\* and another add(entity(k, t)) with a title that fits the slot returns 0;
\* on a slot whose first byte is not 0 the add returns -1.
C37_EmptyTitleLeavesSlotEmpty ==
    [][(BA \in repos /\ call'.op = "add" /\ call'.title = Empty
            /\ call'.id \in 1..MAX_RECORDS)
          => IF PyItem(ba_db, BA_get_address(call'.id).first_byte) = 0
             THEN /\ res'[BA] = RetStatus("add", OK)
                  /\ ba_db' = ba_db
                  /\ BA_get(ba_db', call'.id).ret = RetEntity("get", empty_entity)
                  /\ LET listed == BA_list(ba_db').ret
                     IN  \A i \in 1..Len(listed.entities) :
                            listed.entities[i].id # call'.id
                  /\ \A t \in {Empty, LetterB, PyotrPervy, AleksandrPushkin, EAcute} :
                        BA_add(ba_db', create(call'.id, t)).ret = RetStatus("add", OK)
             ELSE res'[BA] = RetStatus("add", FAIL)]_vars

\* C37 witness: add(entity(1, "")) has returned 0 and the first byte of slot 1
\* is 0.
C37_Witness ==
    /\ BA \in repos
    /\ call = [op |-> "add", id |-> 1, title |-> Empty]
    /\ res[BA] = RetStatus("add", OK)
    /\ PyItem(ba_db, BA_get_address(1).first_byte) = 0

-----------------------------------------------------------------------------
(* A caller that assigns to the attributes of an entity RepositoryRAM.get    *)
(* gave it: get returns the object of the list itself, so what the           *)
(* descriptors accept becomes the state of the stored entity.                *)

\* the longest list of which a caller assigns to an entity
MaxAssignLen == 2

\* the values a caller assigns to entity.id
AssignedIds == {PyInt(1), PyInt(2), PyInt(SENTINEL_ID), PyStr("1"), PyNone}

\* the values a caller assigns to entity.properties
AssignedProperties == {PyDict("title" :> LetterB), PyDict("tit" :> LetterB), PyNone}

\* "entity.id = value" on the entity get(user_id) returned from the list db:
\* TypeChecker.__set__ stores an int in the object and raises TypeError otherwise
Entity_set_id(db, user_id, value) ==
    LET i == RAM_get_index(db, user_id)
    IN  IF TypeChecker_set(value, "int") # "none"
        THEN [db |-> db, ret |-> Raised("set_id", "TypeError")]
        ELSE [db |-> [db EXCEPT ![i + 1] = User(value.val, db[i + 1].title)],
              ret |-> RetStatus("set_id", OK)]

\* "entity.properties = value" on the entity get(user_id) returned from the
\* list db: DictChecker.__set__ stores a dict with the key "title" in the object
\* and raises TypeError otherwise
Entity_set_properties(db, user_id, value) ==
    LET i == RAM_get_index(db, user_id)
    IN  IF DictChecker_set(value, "title") # "none"
        THEN [db |-> db, ret |-> Raised("set_properties", "TypeError")]
        ELSE [db |-> [db EXCEPT ![i + 1] = User(db[i + 1].id, value.val["title"])],
              ret |-> RetStatus("set_properties", OK)]

\* the run of a caller that also assigns to entities: one RepositoryRAM
InitEntity == Init /\ repos = {RAM}

\* entity = repo.get(k); entity.id = value, for a stored k
SetId ==
    /\ call.op = "get"
    /\ Len(ram_db) <= MaxAssignLen
    /\ RAM_get_index(ram_db, call.id) # -1
    /\ \E value \in AssignedIds :
          Dispatch([op |-> "set_id", id |-> call.id, title |-> Empty],
                   Entity_set_id(ram_db, call.id, value),
                   [db |-> ba_db, ret |-> RetStatus("set_id", OK)],
                   [table |-> table, cache |-> cache, conns |-> connections,
                    ret |-> RetStatus("set_id", OK)])

\* entity = repo.get(k); entity.properties = value, for a stored k
SetProperties ==
    /\ call.op = "get"
    /\ Len(ram_db) <= MaxAssignLen
    /\ RAM_get_index(ram_db, call.id) # -1
    /\ \E value \in AssignedProperties :
          Dispatch([op |-> "set_properties", id |-> call.id, title |-> Empty],
                   Entity_set_properties(ram_db, call.id, value),
                   [db |-> ba_db, ret |-> RetStatus("set_properties", OK)],
                   [table |-> table, cache |-> cache, conns |-> connections,
                    ret |-> RetStatus("set_properties", OK)])

NextEntity == Get \/ List \/ Add \/ Delete \/ Update \/ SetId \/ SetProperties

SpecEntity == InitEntity /\ [][NextEntity]_vars

\* C38: an assignment to the id or to the properties of an entity that
\* RepositoryRAM.get returned is rejected: it leaves the entities of the
\* repository as they were.
C38_EntityImmutable ==
    [][(RAM \in repos /\ call'.op \in {"set_id", "set_properties"})
          => ram_db' = ram_db]_vars

====
